---- MODULE Spec2Model ----
(***************************************************************************)
(* Result<T, E>: a tagged union of a success value and an error value,     *)
(* with constructors, combinators (map, map_err, and_then, ok_or) and      *)
(* terminal operations (unwrap, unwrap_or, unwrap_or_else, match).         *)
(*                                                                         *)
(* A behaviour of the model is one program run: a header revision is       *)
(* fixed, a Result is constructed, and operations are applied to the       *)
(* current Result one after the other.  A combinator replaces the current  *)
(* Result by the Result it returns; a terminal operation returns a plain   *)
(* value or ends the process.  Every call of a caller-supplied callback,   *)
(* every call of Display<E>::print and every std::exit is appended to the  *)
(* event log.                                                              *)
(***************************************************************************)
EXTENDS Integers, Sequences, FiniteSets

VARIABLES rev, pc, res, ret, status, log, hist, input

vars == <<rev, pc, res, ret, status, log, hist, input>>

(* ------------------------------ bounds -------------------------------- *)

\* success payloads are 0 .. NumVal-1 (a pointer payload: 0 is nullptr)
NumVal == 3
\* enumerators of the error enum are 0 .. NumErr-1
NumErr == 2
\* operations of one run, the constructor included
MaxOps == 4
\* parse_int is given every string of up to MaxStr characters of Chars
MaxStr == 3
\* and every string of up to MaxDigits equal digits
MaxDigits == 11

Val == 0 .. (NumVal - 1)
ErrT == 0 .. (NumErr - 1)

\* the slot of the union that is not live; the missing value of a void call
Dead == 0 - 1
NoRet == Dead
NoStatus == Dead

(* ------------------------- Result<T, E> storage ------------------------ *)

\* struct Result<T, E> { Tag tag; union { T value; E error; }; }
\* struct Result<void, E> { Tag tag; E error; }   (isvoid = TRUE)
Result ==
    [isvoid : BOOLEAN, tag : {"Ok", "Err"}, value : Val \cup {Dead}, error : ErrT \cup {Dead}]

\* no Result constructed yet
NoResult == [isvoid |-> FALSE, tag |-> "None", value |-> Dead, error |-> Dead]

Ok(val) == [isvoid |-> FALSE, tag |-> "Ok", value |-> val, error |-> Dead]

\* Err that leaves out the assignment r.error = err
Err_unassigned(e) == [isvoid |-> FALSE, tag |-> "Err", value |-> Dead, error |-> 0]

Err(e) == [isvoid |-> FALSE, tag |-> "Err", value |-> Dead, error |-> e]

\* Ok<E>(): the error member is value-initialised ({}), the enumerator 0
OkVoid == [isvoid |-> TRUE, tag |-> "Ok", value |-> Dead, error |-> 0]

ErrVoid(e) == [isvoid |-> TRUE, tag |-> "Err", value |-> Dead, error |-> e]

(* ------------------------------ events -------------------------------- *)

Call(f, x) == [ev |-> "call", fn |-> f, arg |-> x]
DisplayPrint(e) == [ev |-> "print", fn |-> "Display::print", arg |-> e]
StdExit(code) == [ev |-> "exit", fn |-> "std::exit", arg |-> code]
Throw(what) == [ev |-> "throw", fn |-> what, arg |-> Dead]

(* ------------------- caller-supplied callbacks (inputs) ---------------- *)

\* T -> U callbacks given to map
MapFns == {"succ", "zero"}
ApplyMap(f, v) == IF f = "succ" THEN (v + 1) % NumVal ELSE 0

\* E -> F callbacks given to map_err
ErrFns == {"next_err", "first_err"}
ApplyErr(f, e) == IF f = "next_err" THEN (e + 1) % NumErr ELSE 0

\* T -> Result<U, E> callbacks given to and_then
AndThenFns == {"ok_succ", "reject", "validate_positive"}
ApplyAndThen(f, v) ==
    CASE f = "ok_succ" -> Ok((v + 1) % NumVal)
      [] f = "reject" -> Err(v % NumErr)
      [] OTHER -> IF v <= 0 THEN ErrVoid(1) ELSE OkVoid
ReturnsVoid(f) == f = "validate_positive"

\* E -> T callbacks given to unwrap_or_else
RecoverFns == {"twice", "zero_val"}
ApplyRecover(f, e) == IF f = "twice" THEN (e * 2) % NumVal ELSE 0

(* --------------------------- the operations --------------------------- *)
\* Each operation yields [res, ret, returned, ev, self, reads]: the Result the
\* caller holds afterwards, the plain value returned (NoRet for none), whether
\* the call returned to its caller, the events it produced in order, the
\* receiver as the call leaves it, and the members of the receiver it read.

Yield(r, v, evs) ==
    [res |-> r, ret |-> v, returned |-> TRUE, ev |-> evs, self |-> NoResult, reads |-> {}]
Fatal(r, evs) ==
    [res |-> r, ret |-> NoRet, returned |-> FALSE, ev |-> evs, self |-> NoResult, reads |-> {}]

\* outcome o of an operation on receiver r that read the members `slots` of r
\* and assigned to none of them
On(r, slots, o) == [o EXCEPT !.self = r, !.reads = slots]

\* ok_or with the null test inverted
ok_or_inverted(ptr, e) ==
    IF ptr = 0 THEN Yield(Ok(ptr), NoRet, <<>>)
    ELSE Yield(Err(e), NoRet, <<>>)

ok_or(ptr, e) ==
    IF ptr # 0 THEN Yield(Ok(ptr), NoRet, <<>>)
    ELSE Yield(Err(e), NoRet, <<>>)

\* map_err that calls f on the Ok path too
map_err_calls_on_ok(r, f) ==
    IF r.tag = "Ok" THEN Yield(Ok(r.value), NoRet, <<Call(f, r.error)>>)
    ELSE Yield(Err(ApplyErr(f, r.error)), NoRet, <<Call(f, r.error)>>)

\* map_err that evaluates f(error) before it tests the tag
map_err_eager(r, f) ==
    IF r.tag = "Ok"
    THEN On(r, {"tag", "value", "error"}, Yield(Ok(r.value), NoRet, <<>>))
    ELSE On(r, {"tag", "error"},
            Yield(Err(ApplyErr(f, r.error)), NoRet, <<Call(f, r.error)>>))

\* Result<T, E>::map_err
map_err(r, f) ==
    IF r.tag = "Ok" THEN On(r, {"tag", "value"}, Yield(Ok(r.value), NoRet, <<>>))
    ELSE On(r, {"tag", "error"},
            Yield(Err(ApplyErr(f, r.error)), NoRet, <<Call(f, r.error)>>))

\* Result<void, E>::map_err
map_err_void(r, f) ==
    IF r.tag = "Err"
    THEN On(r, {"tag", "error"},
            Yield(ErrVoid(ApplyErr(f, r.error)), NoRet, <<Call(f, r.error)>>))
    ELSE On(r, {"tag"}, Yield(OkVoid, NoRet, <<>>))

\* unwrap that exits without presenting the error
unwrap_silent(r) ==
    IF r.tag = "Err" THEN Fatal(r, <<StdExit(1)>>)
    ELSE Yield(r, r.value, <<>>)

\* T unwrap(const Result<T, E>&)
unwrap(r) ==
    IF r.tag = "Err"
    THEN On(r, {"tag", "error"}, Fatal(r, <<DisplayPrint(r.error), StdExit(1)>>))
    ELSE On(r, {"tag", "value"}, Yield(r, r.value, <<>>))

\* void unwrap(const Result<void, E>&)
unwrap_void(r) ==
    IF r.tag = "Err"
    THEN On(r, {"tag", "error"}, Fatal(r, <<DisplayPrint(r.error), StdExit(1)>>))
    ELSE On(r, {"tag"}, Yield(r, NoRet, <<>>))

\* unwrap that reads the error slot of an Ok Result
Result_unwrap_wrong_slot(r) ==
    IF r.tag = "Err" THEN Fatal(r, <<DisplayPrint(r.error), StdExit(1)>>)
    ELSE Yield(r, r.error, <<>>)

\* Result<T, E>::unwrap (member form)
Result_unwrap(r) ==
    IF r.tag = "Err"
    THEN On(r, {"tag", "error"}, Fatal(r, <<DisplayPrint(r.error), StdExit(1)>>))
    ELSE On(r, {"tag", "value"}, Yield(r, r.value, <<>>))

\* unwrap that marks the Result as consumed by resetting its tag
ResultVoid_unwrap_consumes(r) ==
    IF r.tag = "Err"
    THEN On(r, {"tag", "error"}, Fatal(r, <<DisplayPrint(r.error), StdExit(1)>>))
    ELSE On([r EXCEPT !.tag = "Err"], {"tag"}, Yield([r EXCEPT !.tag = "Err"], NoRet, <<>>))

\* Result<void, E>::unwrap (member form)
ResultVoid_unwrap(r) ==
    IF r.tag = "Err"
    THEN On(r, {"tag", "error"}, Fatal(r, <<DisplayPrint(r.error), StdExit(1)>>))
    ELSE On(r, {"tag"}, Yield(r, NoRet, <<>>))

\* map without the tag check: f is applied to whatever the value slot holds
map_unchecked(r, f) ==
    Yield(Ok(ApplyMap(f, r.value)), NoRet, <<Call(f, r.value)>>)

\* map that calls f and forwards the untransformed value
map_forwards_value(r, f) ==
    IF r.tag = "Ok" THEN Yield(Ok(r.value), NoRet, <<Call(f, r.value)>>)
    ELSE Yield(Err(r.error), NoRet, <<>>)

\* Result<T, E>::map
map(r, f) ==
    IF r.tag = "Ok"
    THEN On(r, {"tag", "value"},
            Yield(Ok(ApplyMap(f, r.value)), NoRet, <<Call(f, r.value)>>))
    ELSE On(r, {"tag", "error"}, Yield(Err(r.error), NoRet, <<>>))

\* and_then that wraps like map: the Result of f is taken as a success
and_then_wraps(r, f) ==
    IF r.tag = "Ok"
    THEN Yield([ApplyAndThen(f, r.value) EXCEPT !.tag = "Ok"], NoRet, <<Call(f, r.value)>>)
    ELSE Yield(IF ReturnsVoid(f) THEN ErrVoid(r.error) ELSE Err(r.error), NoRet, <<>>)

\* and_then that lifts a value-initialised error instead of the current one
and_then_drops_error(r, f) ==
    IF r.tag = "Ok" THEN Yield(ApplyAndThen(f, r.value), NoRet, <<Call(f, r.value)>>)
    ELSE Yield(IF ReturnsVoid(f) THEN ErrVoid(0) ELSE Err(0), NoRet, <<>>)

\* and_then that calls f whatever the tag
and_then_unchecked(r, f) ==
    Yield(ApplyAndThen(f, r.value), NoRet, <<Call(f, r.value)>>)

\* and_then that evaluates f(value) once for the type and once for the Result
and_then_calls_twice(r, f) ==
    IF r.tag = "Ok"
    THEN On(r, {"tag", "value"},
            Yield(ApplyAndThen(f, r.value), NoRet, <<Call(f, r.value), Call(f, r.value)>>))
    ELSE On(r, {"tag", "error"},
            Yield(IF ReturnsVoid(f) THEN ErrVoid(r.error) ELSE Err(r.error), NoRet, <<>>))

\* Result<T, E>::and_then; on Err the Result is err<value_type of f's Result, E>(error)
and_then(r, f) ==
    IF r.tag = "Ok"
    THEN On(r, {"tag", "value"},
            Yield(ApplyAndThen(f, r.value), NoRet, <<Call(f, r.value)>>))
    ELSE On(r, {"tag", "error"},
            Yield(IF ReturnsVoid(f) THEN ErrVoid(r.error) ELSE Err(r.error), NoRet, <<>>))

\* r.and_then(v -> f(v).and_then(g)): and_then with the callback that chains g
\* onto the Result of f; the events are the calls of f and g it makes
and_then_nested(r, f, g) ==
    IF r.tag = "Ok"
    THEN LET inner == and_then(ApplyAndThen(f, r.value), g)
         IN  On(r, {"tag", "value"},
                Yield(inner.res, NoRet, <<Call(f, r.value)>> \o inner.ev))
    ELSE On(r, {"tag", "error"},
            Yield(IF ReturnsVoid(g) THEN ErrVoid(r.error) ELSE Err(r.error), NoRet, <<>>))

\* unwrap_or with the branches swapped
unwrap_or_swapped(r, fallback) ==
    IF r.tag = "Err" THEN Yield(r, r.value, <<DisplayPrint(r.error)>>)
    ELSE Yield(r, fallback, <<>>)

\* T unwrap_or(const Result<T, E>&, T fallback), src/result.hpp
unwrap_or(r, fallback) ==
    IF r.tag = "Err"
    THEN On(r, {"tag", "error"}, Yield(r, fallback, <<DisplayPrint(r.error)>>))
    ELSE On(r, {"tag", "value"}, Yield(r, r.value, <<>>))

\* void unwrap_or(const Result<void, E>&, void*), src/result.hpp
unwrap_or_void(r) ==
    IF r.tag = "Err"
    THEN On(r, {"tag", "error"}, Yield(r, NoRet, <<DisplayPrint(r.error)>>))
    ELSE On(r, {"tag"}, Yield(r, NoRet, <<>>))

\* T unwrap_or(const Result<T, E>&, T fallback), the header of src/README.md
readme_unwrap_or(r, fallback) ==
    IF r.tag = "Err" THEN On(r, {"tag"}, Yield(r, fallback, <<>>))
    ELSE On(r, {"tag", "value"}, Yield(r, r.value, <<>>))

\* unwrap_or_else that exits after the recovery callback
unwrap_or_else_fatal(r, on_error) ==
    IF r.tag = "Err"
    THEN Fatal(r, <<DisplayPrint(r.error), Call(on_error, r.error), StdExit(1)>>)
    ELSE Yield(r, r.value, <<>>)

\* T unwrap_or_else(const Result<T, E>&, F on_error), src/result.hpp
unwrap_or_else(r, on_error) ==
    IF r.tag = "Err"
    THEN On(r, {"tag", "error"},
            Yield(r, ApplyRecover(on_error, r.error),
                  <<DisplayPrint(r.error), Call(on_error, r.error)>>))
    ELSE On(r, {"tag", "value"}, Yield(r, r.value, <<>>))

\* unwrap_or_else that presents the error after the recovery callback ran
unwrap_or_else_void_prints_after(r, on_error) ==
    IF r.tag = "Err"
    THEN On(r, {"tag", "error"},
            Yield(r, NoRet, <<Call(on_error, r.error), DisplayPrint(r.error)>>))
    ELSE On(r, {"tag"}, Yield(r, NoRet, <<>>))

\* void unwrap_or_else(const Result<void, E>&, F on_error), src/result.hpp
unwrap_or_else_void(r, on_error) ==
    IF r.tag = "Err"
    THEN On(r, {"tag", "error"},
            Yield(r, NoRet, <<DisplayPrint(r.error), Call(on_error, r.error)>>))
    ELSE On(r, {"tag"}, Yield(r, NoRet, <<>>))

\* unwrap_or_else that calls the recovery callback whatever the tag
readme_unwrap_or_else_always(r, on_error) ==
    IF r.tag = "Err"
    THEN On(r, {"tag", "error"},
            Yield(r, ApplyRecover(on_error, r.error), <<Call(on_error, r.error)>>))
    ELSE On(r, {"tag", "value", "error"}, Yield(r, r.value, <<Call(on_error, r.error)>>))

\* T unwrap_or_else(const Result<T, E>&, F on_error), the header of src/README.md
readme_unwrap_or_else(r, on_error) ==
    IF r.tag = "Err"
    THEN On(r, {"tag", "error"},
            Yield(r, ApplyRecover(on_error, r.error), <<Call(on_error, r.error)>>))
    ELSE On(r, {"tag", "value"}, Yield(r, r.value, <<>>))

\* void unwrap_or_else(const Result<void, E>&, F on_error), the header of src/README.md
readme_unwrap_or_else_void(r, on_error) ==
    IF r.tag = "Err"
    THEN On(r, {"tag", "error"}, Yield(r, NoRet, <<Call(on_error, r.error)>>))
    ELSE On(r, {"tag"}, Yield(r, NoRet, <<>>))

\* match that falls through from the Ok handler into the Err handler
match_falls_through(r, on_ok, on_err) ==
    IF r.tag = "Ok"
    THEN On(r, {"tag", "value", "error"},
            Yield(r, ApplyRecover(on_err, r.error),
                  <<Call(on_ok, r.value), Call(on_err, r.error)>>))
    ELSE On(r, {"tag", "error"},
            Yield(r, ApplyRecover(on_err, r.error), <<Call(on_err, r.error)>>))

\* match(result, on_ok, on_err): the handler chosen by the tag is called once
\* and its result returned; the handlers of a run are the pair (on_ok, on_err)
match(r, on_ok, on_err) ==
    IF r.tag = "Ok"
    THEN On(r, {"tag", "value"},
            Yield(r, ApplyMap(on_ok, r.value), <<Call(on_ok, r.value)>>))
    ELSE On(r, {"tag", "error"},
            Yield(r, ApplyRecover(on_err, r.error), <<Call(on_err, r.error)>>))

(* ------------------------ parse_int (example.cpp) ---------------------- *)

\* enum class ParseError { Empty, NotANumber }
Empty == 0
NotANumber == 1

\* the largest int
IntMax == 2147483647

Digits == {"0", "1", "2", "3", "4", "5", "6", "7", "8", "9"}
Chars == {"0", "1", "2", "3", "a", "b", "c"}

isdigit(c) == c \in Digits

DigitVal(c) ==
    CASE c = "0" -> 0 [] c = "1" -> 1 [] c = "2" -> 2 [] c = "3" -> 3 [] c = "4" -> 4
      [] c = "5" -> 5 [] c = "6" -> 6 [] c = "7" -> 7 [] c = "8" -> 8 [] OTHER -> 9

\* std::stoi on a string of digits, from character i on with acc read so far:
\* the int it denotes, or Dead when that is beyond IntMax (std::out_of_range)
RECURSIVE stoi_from(_, _, _)
stoi_from(s, i, acc) ==
    IF i > Len(s) THEN acc
    ELSE IF acc > (IntMax - DigitVal(s[i])) \div 10 THEN Dead
    ELSE stoi_from(s, i + 1, acc * 10 + DigitVal(s[i]))

stoi(s) == stoi_from(s, 1, 0)

\* for (char c : s) if (!isdigit(c)) ...: the first non-digit from i on, 0 for none
RECURSIVE first_non_digit(_, _)
first_non_digit(s, i) ==
    IF i > Len(s) THEN 0
    ELSE IF ~isdigit(s[i]) THEN i
    ELSE first_non_digit(s, i + 1)

\* an exception leaves the call and nothing catches it
Thrown(evs) ==
    [res |-> NoResult, ret |-> NoRet, returned |-> FALSE, ev |-> evs,
     self |-> NoResult, reads |-> {}]

\* Result<int, ParseError> parse_int(const std::string& s)
parse_int(s) ==
    IF Len(s) = 0 THEN Yield(Err(Empty), NoRet, <<>>)
    ELSE IF first_non_digit(s, 1) # 0 THEN Yield(Err(NotANumber), NoRet, <<>>)
    ELSE IF stoi(s) = Dead THEN Thrown(<<Throw("std::out_of_range")>>)
    ELSE Yield(Ok(stoi(s)), NoRet, <<>>)

\* the strings given to parse_int
StringsUpTo(n) == UNION {[1 .. k -> Chars] : k \in 0 .. n}
Repeated(n) == {[i \in 1 .. k |-> d] : k \in 1 .. n, d \in Digits}
Inputs ==
    StringsUpTo(MaxStr) \cup Repeated(MaxDigits)
        \cup {<<"2", "1", "4", "7", "4", "8", "3", "6", "4", "7">>,
              <<"2", "1", "4", "7", "4", "8", "3", "6", "4", "8">>}

(* ------------------------------ the run -------------------------------- *)

Entry(op, form, fn, fn2, arg, arg2, o, lo) ==
    [op |-> op, form |-> form, fn |-> fn, fn2 |-> fn2, arg |-> arg, arg2 |-> arg2,
     recv |-> res, out |-> o.res, ret |-> o.ret, returned |-> o.returned,
     self |-> o.self, reads |-> o.reads,
     lo |-> lo, hi |-> lo + Len(o.ev)]

ExitCode(evs) == IF Len(evs) > 0 /\ evs[Len(evs)].ev = "exit" THEN evs[Len(evs)].arg ELSE NoStatus

\* one operation with outcome o is performed by the running program
Step(op, form, fn, fn2, arg, arg2, o) ==
    /\ Len(hist) < MaxOps
    /\ res' = o.res
    /\ ret' = o.ret
    /\ log' = log \o o.ev
    /\ pc' = IF o.returned THEN "run" ELSE "exited"
    /\ status' = IF o.returned THEN status ELSE ExitCode(o.ev)
    /\ hist' = Append(hist, Entry(op, form, fn, fn2, arg, arg2, o, Len(log)))
    /\ UNCHANGED <<rev, input>>

Init ==
    /\ rev \in {"result_hpp", "readme"}
    /\ pc = "start"
    /\ res = NoResult
    /\ ret = NoRet
    /\ status = NoStatus
    /\ log = <<>>
    /\ hist = <<>>
    /\ input = <<>>

Success ==
    /\ pc = "start"
    /\ \E v \in Val : Step("Ok", "free", "", "", v, Dead, Yield(Ok(v), NoRet, <<>>))

SuccessVoid ==
    /\ pc = "start"
    /\ Step("Ok", "free", "", "", Dead, Dead, Yield(OkVoid, NoRet, <<>>))

Failure ==
    /\ pc = "start"
    /\ \E e \in ErrT : Step("Err", "free", "", "", e, Dead, Yield(Err(e), NoRet, <<>>))

FailureVoid ==
    /\ pc = "start"
    /\ \E e \in ErrT : Step("Err", "free", "", "", e, Dead, Yield(ErrVoid(e), NoRet, <<>>))

OkOr ==
    /\ pc = "start"
    /\ \E p \in Val, e \in ErrT : Step("ok_or", "free", "", "", p, e, ok_or(p, e))

MapErr ==
    /\ pc = "run"
    /\ \E f \in ErrFns :
          Step("map_err", "member", f, "", Dead, Dead,
               IF res.isvoid THEN map_err_void(res, f) ELSE map_err(res, f))

\* map and and_then are members of Result<T, E> only, in the header of README.md
Map ==
    /\ pc = "run"
    /\ rev = "readme"
    /\ ~res.isvoid
    /\ \E f \in MapFns : Step("map", "member", f, "", Dead, Dead, map(res, f))

AndThen ==
    /\ pc = "run"
    /\ rev = "readme"
    /\ ~res.isvoid
    /\ \E f \in AndThenFns : Step("and_then", "member", f, "", Dead, Dead, and_then(res, f))

Unwrap ==
    /\ pc = "run"
    /\ Step("unwrap", "free", "", "", Dead, Dead,
            IF res.isvoid THEN unwrap_void(res) ELSE unwrap(res))

UnwrapMember ==
    /\ pc = "run"
    /\ rev = "readme"
    /\ Step("unwrap", "member", "", "", Dead, Dead,
            IF res.isvoid THEN ResultVoid_unwrap(res) ELSE Result_unwrap(res))

UnwrapOr ==
    /\ pc = "run"
    /\ ~res.isvoid
    /\ \E fallback \in Val :
          Step("unwrap_or", "free", "", "", fallback, Dead,
               IF rev = "result_hpp" THEN unwrap_or(res, fallback)
               ELSE readme_unwrap_or(res, fallback))

\* the void overload exists in src/result.hpp only
UnwrapOrVoid ==
    /\ pc = "run"
    /\ rev = "result_hpp"
    /\ res.isvoid
    /\ Step("unwrap_or", "free", "", "", Dead, Dead, unwrap_or_void(res))

UnwrapOrElse ==
    /\ pc = "run"
    /\ \E f \in RecoverFns :
          Step("unwrap_or_else", "free", f, "", Dead, Dead,
               CASE rev = "result_hpp" /\ ~res.isvoid -> unwrap_or_else(res, f)
                 [] rev = "result_hpp" /\ res.isvoid -> unwrap_or_else_void(res, f)
                 [] rev = "readme" /\ ~res.isvoid -> readme_unwrap_or_else(res, f)
                 [] OTHER -> readme_unwrap_or_else_void(res, f))

Match ==
    /\ pc = "run"
    /\ rev = "readme"
    /\ ~res.isvoid
    /\ \E on_ok \in MapFns, on_err \in RecoverFns :
          Step("match", "free", on_ok, on_err, Dead, Dead, match(res, on_ok, on_err))

Next ==
    \/ Success
    \/ SuccessVoid
    \/ Failure
    \/ FailureVoid
    \/ OkOr
    \/ MapErr
    \/ Map
    \/ AndThen
    \/ Unwrap
    \/ UnwrapMember
    \/ UnwrapOr
    \/ UnwrapOrVoid
    \/ UnwrapOrElse
    \/ Match

Spec == Init /\ [][Next]_vars

\* a run of the example program's parser: one string is parsed
InitParse ==
    /\ rev = "readme"
    /\ pc = "start"
    /\ res = NoResult
    /\ ret = NoRet
    /\ status = NoStatus
    /\ log = <<>>
    /\ hist = <<>>
    /\ input \in Inputs

ParseInt ==
    /\ pc = "start"
    /\ Step("parse_int", "free", "", "", Dead, Dead, parse_int(input))

NextParse == ParseInt

SpecParse == InitParse /\ [][NextParse]_vars

TypeOK ==
    /\ rev \in {"result_hpp", "readme"}
    /\ pc \in {"start", "run", "exited"}
    /\ res \in Result \cup {NoResult}
    /\ ret \in Val \cup {NoRet}
    /\ status \in {NoStatus, 1}
    /\ Len(hist) <= MaxOps
(* ------------------------------ claims -------------------------------- *)

Steps == 1 .. Len(hist)

\* the events operation h produced
Seg(h) == SubSeq(log, h.lo + 1, h.hi)

Events(evs, kind) == {k \in 1 .. Len(evs) : evs[k].ev = kind}

\* C1: unwrap of an Err Result (free and member form, payload and no-payload)
\* calls Display<E>::print with the error exactly once, then exits with a
\* non-zero status, and does not return; after failure(e) the error printed is e.
C1_UnwrapErrPrintsThenExits ==
    \A i \in Steps :
        LET h == hist[i] IN
        (h.op = "unwrap" /\ h.recv.tag = "Err") =>
            /\ Seg(h) = <<DisplayPrint(h.recv.error), StdExit(1)>>
            /\ Cardinality(Events(Seg(h), "print")) = 1
            /\ ~h.returned
            /\ h.ret = NoRet
            /\ i = Len(hist)
            /\ pc = "exited"
            /\ status \notin {0, NoStatus}
            /\ (i > 1 /\ hist[i - 1].op = "Err" => Seg(h)[1].arg = hist[i - 1].arg)

C1_Witness ==
    /\ pc = "exited"
    /\ Len(hist) = 2
    /\ hist[1].op = "Err"
    /\ hist[1].arg = 1
    /\ hist[2].op = "unwrap"
    /\ hist[2].form = "member"
    /\ hist[2].recv.isvoid

\* C2: unwrap of success(v) returns v, prints nothing and does not exit.
C2_UnwrapOkReturnsValue ==
    \A i \in Steps :
        LET h == hist[i] IN
        (i > 1 /\ h.op = "unwrap" /\ hist[i - 1].op = "Ok" /\ ~h.recv.isvoid) =>
            /\ h.returned
            /\ h.ret = hist[i - 1].arg
            /\ Seg(h) = <<>>
            /\ (i = Len(hist) => pc = "run" /\ status = NoStatus /\ ret = hist[i - 1].arg)

C2_Witness ==
    /\ Len(hist) = 2
    /\ hist[1].op = "Ok"
    /\ hist[1].arg = 2
    /\ hist[2].op = "unwrap"
    /\ hist[2].form = "member"
    /\ ret = 2
    /\ pc = "run"

\* C3: every operation other than unwrap returns to its caller, unwrap of an Ok
\* Result returns too, and the process has exited only by an unwrap of an Err.
C3_OnlyUnwrapErrExits ==
    /\ \A i \in Steps :
           LET h == hist[i] IN
           /\ (h.op # "unwrap" => h.returned /\ Events(Seg(h), "exit") = {})
           /\ (h.op = "unwrap" /\ h.recv.tag = "Ok" => h.returned)
           /\ (~h.returned => h.op = "unwrap" /\ h.recv.tag = "Err" /\ i = Len(hist))
    /\ (pc = "exited" <=> (Len(hist) > 0 /\ ~hist[Len(hist)].returned))
    /\ (pc = "exited" <=> status # NoStatus)
    /\ \A k \in Events(log, "exit") : k = Len(log) /\ pc = "exited"

C3_Witness ==
    /\ pc = "exited"
    /\ Len(hist) = 4
    /\ hist[2].op = "unwrap_or_else"
    /\ hist[2].recv.tag = "Err"
    /\ hist[3].op = "match"
    /\ hist[4].op = "unwrap"

\* the error a chain carries at step j when it first failed at step i <= j:
\* the first error with the callbacks of the map_err steps i+1 .. j applied in order
RECURSIVE ErrAfter(_, _)
ErrAfter(i, j) ==
    IF j <= i THEN hist[i].out.error
    ELSE IF hist[j].op = "map_err" THEN ApplyErr(hist[j].fn, ErrAfter(i, j - 1))
    ELSE ErrAfter(i, j - 1)

\* step i is the first whose Result is Err
FirstErr(i) == hist[i].out.tag = "Err" /\ (i = 1 \/ hist[i - 1].out.tag # "Err")

\* C4: once a Result of a chain is Err, every later Result is Err, no later map
\* or and_then calls its callback, and the error carried is the first error
\* with only the later map_err callbacks applied to it, in order.
C4_ShortCircuit ==
    \A i \in Steps :
        FirstErr(i) =>
            /\ \A j \in (i + 1) .. Len(hist) :
                   /\ hist[j].out.tag = "Err"
                   /\ (hist[j].op \in {"map", "and_then"} => Events(Seg(hist[j]), "call") = {})
                   /\ hist[j].out.error = ErrAfter(i, j)
            /\ res.tag = "Err"
            /\ res.error = ErrAfter(i, Len(hist))

C4_Witness ==
    /\ Len(hist) = 4
    /\ hist[1].op = "Ok"
    /\ hist[2].op = "and_then"
    /\ hist[2].out.tag = "Err"
    /\ hist[2].out.error = 0
    /\ hist[3].op = "map"
    /\ hist[4].op = "map_err"
    /\ hist[4].fn = "next_err"
    /\ res.error = 1

\* C5: map on an Err Result gives an Err Result with the same error and never
\* calls f; after failure(e) that error is e.
C5_MapErrKeepsError ==
    \A i \in Steps :
        LET h == hist[i] IN
        (h.op = "map" /\ h.recv.tag = "Err") =>
            /\ h.out.tag = "Err"
            /\ h.out.error = h.recv.error
            /\ Seg(h) = <<>>
            /\ (hist[i - 1].op = "Err" => h.out.error = hist[i - 1].arg)

C5_Witness ==
    /\ Len(hist) = 2
    /\ hist[1].op = "Err"
    /\ hist[1].arg = 1
    /\ hist[2].op = "map"
    /\ res.tag = "Err"
    /\ res.error = 1

\* C6: map on success(v) gives Ok with value f(v), calling f exactly once on
\* v; an unwrap of that Result returns f(v).
C6_MapOkAppliesOnce ==
    \A i \in Steps :
        LET h == hist[i] IN
        (h.op = "map" /\ h.recv.tag = "Ok") =>
            /\ h.out.tag = "Ok"
            /\ h.out.value = ApplyMap(h.fn, h.recv.value)
            /\ Seg(h) = <<Call(h.fn, h.recv.value)>>
            /\ (hist[i - 1].op = "Ok" => h.out.value = ApplyMap(h.fn, hist[i - 1].arg))
            /\ (i < Len(hist) /\ hist[i + 1].op = "unwrap" =>
                    /\ hist[i + 1].returned
                    /\ hist[i + 1].ret = ApplyMap(h.fn, h.recv.value))

C6_Witness ==
    /\ Len(hist) = 3
    /\ hist[1].op = "Ok"
    /\ hist[1].arg = 1
    /\ hist[2].op = "map"
    /\ hist[2].fn = "succ"
    /\ hist[3].op = "unwrap"
    /\ ret = 2

\* C7: map_err on an Ok Result gives Ok with the same value and never calls g
\* (a following unwrap returns the value); on an Err Result it gives Err with
\* error g(e), calling g exactly once on e.
C7_MapErrOnlyErrorChannel ==
    \A i \in Steps :
        LET h == hist[i] IN
        h.op = "map_err" =>
            /\ h.out.isvoid = h.recv.isvoid
            /\ (h.recv.tag = "Ok" =>
                    /\ h.out.tag = "Ok"
                    /\ h.out.value = h.recv.value
                    /\ Seg(h) = <<>>
                    /\ (hist[i - 1].op = "Ok" => h.out.value = hist[i - 1].arg)
                    /\ (i < Len(hist) /\ hist[i + 1].op = "unwrap" =>
                            /\ hist[i + 1].returned
                            /\ hist[i + 1].ret = h.recv.value))
            /\ (h.recv.tag = "Err" =>
                    /\ h.out.tag = "Err"
                    /\ h.out.error = ApplyErr(h.fn, h.recv.error)
                    /\ Seg(h) = <<Call(h.fn, h.recv.error)>>)

C7_Witness ==
    /\ Len(hist) = 3
    /\ hist[1].op = "Ok"
    /\ hist[1].arg = 2
    /\ hist[2].op = "map_err"
    /\ hist[3].op = "unwrap"
    /\ ret = 2
    /\ pc = "run"

\* C8: and_then on success(v) gives exactly the Result f(v), Ok or Err, calling
\* f exactly once on v, with no Result nested in the payload.
C8_AndThenLeftIdentity ==
    \A i \in Steps :
        LET h == hist[i] IN
        (h.op = "and_then" /\ h.recv.tag = "Ok") =>
            /\ h.out = ApplyAndThen(h.fn, h.recv.value)
            /\ Seg(h) = <<Call(h.fn, h.recv.value)>>
            /\ h.out \in Result
            /\ (hist[i - 1].op = "Ok" => h.out = ApplyAndThen(h.fn, hist[i - 1].arg))

C8_Witness ==
    /\ Len(hist) = 2
    /\ hist[1].op = "Ok"
    /\ hist[1].arg = 1
    /\ hist[2].op = "and_then"
    /\ hist[2].fn = "reject"
    /\ res.tag = "Err"
    /\ res.error = 1

\* C9: and_then on an Err Result never calls f and gives an Err Result with
\* the same error, of the no-payload specialization when f returns that one.
C9_AndThenErrSkips ==
    \A i \in Steps :
        LET h == hist[i] IN
        (h.op = "and_then" /\ h.recv.tag = "Err") =>
            /\ Seg(h) = <<>>
            /\ h.out.tag = "Err"
            /\ h.out.error = h.recv.error
            /\ h.out.isvoid = ReturnsVoid(h.fn)
            /\ (hist[i - 1].op = "Err" => h.out.error = hist[i - 1].arg)

C9_Witness ==
    /\ Len(hist) = 2
    /\ hist[1].op = "Err"
    /\ hist[1].arg = 1
    /\ hist[2].op = "and_then"
    /\ hist[2].fn = "validate_positive"
    /\ res.isvoid
    /\ res.tag = "Err"
    /\ res.error = 1

\* C10: unwrap_or returns the value of an Ok Result and the fallback of an Err
\* Result, whatever its error; the call returns and the process goes on.
C10_UnwrapOrValueOrFallback ==
    \A i \in Steps :
        LET h == hist[i] IN
        (h.op = "unwrap_or" /\ ~h.recv.isvoid) =>
            /\ h.returned
            /\ Events(Seg(h), "exit") = {}
            /\ (h.recv.tag = "Ok" => h.ret = h.recv.value)
            /\ (h.recv.tag = "Err" => h.ret = h.arg)
            /\ (hist[i - 1].op = "Ok" => h.ret = hist[i - 1].arg)
            /\ (i = Len(hist) => pc = "run" /\ status = NoStatus /\ ret = h.ret)

C10_Witness ==
    /\ Len(hist) = 2
    /\ hist[1].op = "Err"
    /\ hist[1].arg = 1
    /\ hist[2].op = "unwrap_or"
    /\ hist[2].arg = 2
    /\ ret = 2
    /\ pc = "run"

\* C11: unwrap_or_else returns the value of an Ok Result without calling
\* recover, and on an Err Result calls recover exactly once, with the error,
\* and returns what it returned.
C11_UnwrapOrElseRecovers ==
    \A i \in Steps :
        LET h == hist[i]
            calls == SelectSeq(Seg(h), LAMBDA x : x.ev = "call")
        IN
        (h.op = "unwrap_or_else" /\ ~h.recv.isvoid) =>
            /\ h.returned
            /\ (h.recv.tag = "Ok" =>
                    /\ h.ret = h.recv.value
                    /\ calls = <<>>
                    /\ (hist[i - 1].op = "Ok" => h.ret = hist[i - 1].arg))
            /\ (h.recv.tag = "Err" =>
                    /\ calls = <<Call(h.fn, h.recv.error)>>
                    /\ h.ret = ApplyRecover(h.fn, h.recv.error)
                    /\ (hist[i - 1].op = "Err" =>
                            /\ calls[1].arg = hist[i - 1].arg
                            /\ h.ret = ApplyRecover(h.fn, hist[i - 1].arg)))

C11_Witness ==
    /\ Len(hist) = 2
    /\ hist[1].op = "Err"
    /\ hist[1].arg = 1
    /\ hist[2].op = "unwrap_or_else"
    /\ hist[2].fn = "twice"
    /\ ~hist[2].recv.isvoid
    /\ ret = 2

\* C12: match calls exactly one handler exactly once, on_ok with the value of
\* an Ok Result and on_err with the error of an Err Result, and returns that
\* handler's result.
C12_MatchCallsOneHandler ==
    \A i \in Steps :
        LET h == hist[i] IN
        h.op = "match" =>
            /\ h.returned
            /\ Len(Seg(h)) = 1
            /\ (h.recv.tag = "Ok" =>
                    /\ Seg(h) = <<Call(h.fn, h.recv.value)>>
                    /\ h.ret = ApplyMap(h.fn, h.recv.value))
            /\ (h.recv.tag = "Err" =>
                    /\ Seg(h) = <<Call(h.fn2, h.recv.error)>>
                    /\ h.ret = ApplyRecover(h.fn2, h.recv.error))

C12_Witness ==
    /\ Len(hist) = 3
    /\ hist[2].op = "match"
    /\ hist[2].recv.tag = "Ok"
    /\ hist[3].op = "match"
    /\ hist[3].recv.tag = "Ok"
    /\ Len(log) = 2

\* C13: ok_or of a non-null handle p is Ok with value p; ok_or of a null
\* handle is Err with the error given.
C13_OkOrNullable ==
    \A i \in Steps :
        LET h == hist[i] IN
        h.op = "ok_or" =>
            /\ h.returned
            /\ ~h.out.isvoid
            /\ (h.arg # 0 => h.out.tag = "Ok" /\ h.out.value = h.arg)
            /\ (h.arg = 0 => h.out.tag = "Err" /\ h.out.error = h.arg2)

C13_Witness ==
    /\ Len(hist) = 1
    /\ hist[1].op = "ok_or"
    /\ hist[1].arg = 0
    /\ hist[1].arg2 = 1
    /\ res.tag = "Err"
    /\ res.error = 1

\* C14: success(v) is tagged Ok with value v (success() of the no-payload
\* specialization is tagged Ok); failure(e) is tagged Err with error e, in
\* both specializations.
C14_ConstructorsFixTagAndPayload ==
    \A i \in Steps :
        LET h == hist[i] IN
        /\ (h.op = "Ok" =>
                /\ h.out.tag = "Ok"
                /\ (~h.out.isvoid => h.arg \in Val /\ h.out.value = h.arg))
        /\ (h.op = "Err" =>
                /\ h.out.tag = "Err"
                /\ h.arg \in ErrT
                /\ h.out.error = h.arg)

C14_Witness ==
    /\ Len(hist) = 1
    /\ hist[1].op = "Err"
    /\ hist[1].arg = 1
    /\ ~res.isvoid
    /\ res.tag = "Err"
    /\ res.error = 1

\* C15: unwrap_or and unwrap_or_else (payload and no-payload forms) on an Err
\* Result never call Display<E>::print.
C15_NonFatalTerminalsNeverPrint ==
    \A i \in Steps :
        LET h == hist[i] IN
        (h.op \in {"unwrap_or", "unwrap_or_else"} /\ h.recv.tag = "Err") =>
            Events(Seg(h), "print") = {}

Terminals == {"unwrap", "unwrap_or", "unwrap_or_else", "match"}
Combinators == {"map", "map_err", "and_then"}

\* C16: the tag of every Result produced names the member last written (Ok
\* iff the value is live, Err iff the error is live), and no operation reads
\* the value of an Err Result or the error of an Ok Result.
C16_DiscriminantInvariant ==
    \A i \in Steps :
        LET h == hist[i] IN
        /\ h.out \in Result
        /\ (~h.out.isvoid =>
                /\ (h.out.tag = "Ok" <=> h.out.value # Dead)
                /\ (h.out.tag = "Err" <=> h.out.error # Dead))
        /\ (h.out.isvoid => h.out.value = Dead /\ h.out.error \in ErrT)
        /\ (h.op \in Terminals \cup Combinators =>
                /\ "tag" \in h.reads
                /\ (h.recv.tag = "Err" => "value" \notin h.reads)
                /\ (h.recv.tag = "Ok" => "error" \notin h.reads))

C16_Witness ==
    /\ Len(hist) = 4
    /\ hist[1].op = "Ok"
    /\ hist[2].op = "map_err"
    /\ hist[3].op = "and_then"
    /\ hist[3].out.tag = "Err"
    /\ hist[3].out.isvoid
    /\ hist[4].op = "unwrap_or_else"
    /\ hist[4].reads = {"tag", "error"}

\* the same operation with the same arguments on the same Result
SameCall(g, h) ==
    /\ g.op = h.op
    /\ g.form = h.form
    /\ g.fn = h.fn
    /\ g.fn2 = h.fn2
    /\ g.arg = h.arg
    /\ g.recv = h.recv

\* C17: no combinator or terminal operation changes the tag or the payload of
\* the Result it is applied to, a terminal operation leaves the caller with
\* that Result, and the same operation applied again to the same Result has
\* the same outcome.
C17_ReceiverUnchanged ==
    \A i \in Steps :
        LET h == hist[i] IN
        (h.op \in Terminals \cup Combinators) =>
            /\ h.self = h.recv
            /\ (h.op \in Terminals => h.out = h.recv)
            /\ \A j \in Steps :
                   SameCall(hist[j], h) =>
                       /\ hist[j].out = h.out
                       /\ hist[j].ret = h.ret
                       /\ hist[j].returned = h.returned
                       /\ Seg(hist[j]) = Seg(h)

C17_Witness ==
    /\ Len(hist) = 4
    /\ hist[2].op = "unwrap"
    /\ hist[2].form = "member"
    /\ hist[2].recv.isvoid
    /\ hist[3].op = "map_err"
    /\ hist[4].op = "map_err"
    /\ hist[3].recv = hist[4].recv
    /\ hist[3].fn = hist[4].fn

\* C18: every operation the general Result has is available on the no-payload
\* specialization: wherever a program of the README.md header may go on with a
\* map or an and_then on a Result<T, E>, it may on a Result<void, E>.
C18_VoidHasEveryOperation ==
    (pc = "run" /\ rev = "readme" /\ res.isvoid /\ Len(hist) < MaxOps) =>
        /\ ENABLED MapErr
        /\ ENABLED UnwrapMember
        /\ ENABLED UnwrapOrElse
        /\ ENABLED Map
        /\ ENABLED AndThen

\* the number a string of digits denotes
RECURSIVE DecimalValue(_)
DecimalValue(s) ==
    IF Len(s) = 0 THEN 0
    ELSE 10 * DecimalValue(SubSeq(s, 1, Len(s) - 1)) + DigitVal(s[Len(s)])

HasNonDigit(s) == \E i \in 1 .. Len(s) : s[i] \notin Digits

Parsed == Len(hist) = 1 /\ hist[1].op = "parse_int"

\* C19: parse_int(s) is Err(Empty) iff s is empty, Err(NotANumber) iff s is
\* non-empty with a non-digit character, and otherwise Ok(n) with n the
\* decimal value of s.
C19_ParseInt ==
    Parsed =>
        LET h == hist[1] IN
        /\ (Len(input) = 0 <=>
                (h.returned /\ h.out.tag = "Err" /\ h.out.error = Empty))
        /\ ((Len(input) > 0 /\ HasNonDigit(input)) <=>
                (h.returned /\ h.out.tag = "Err" /\ h.out.error = NotANumber))
        /\ ((Len(input) > 0 /\ ~HasNonDigit(input)) =>
                /\ h.returned
                /\ h.out.tag = "Ok"
                /\ h.out.value = DecimalValue(input))

\* what holds of parse_int: the same, for the digit strings that denote an int
C19_ParseIntInRange ==
    Parsed =>
        LET h == hist[1] IN
        /\ (Len(input) = 0 <=>
                (h.returned /\ h.out.tag = "Err" /\ h.out.error = Empty))
        /\ ((Len(input) > 0 /\ HasNonDigit(input)) <=>
                (h.returned /\ h.out.tag = "Err" /\ h.out.error = NotANumber))
        /\ ((Len(input) > 0 /\ ~HasNonDigit(input) /\ h.returned) =>
                /\ h.out.tag = "Ok"
                /\ h.out.value = DecimalValue(input))
        /\ (~h.returned =>
                /\ Len(input) >= 10
                /\ ~HasNonDigit(input)
                /\ Seg(h) = <<Throw("std::out_of_range")>>)
        /\ (input = <<"1", "2", "3">> => h.out.value = 123)
        /\ (input = <<"a", "b", "c">> => h.out.error = NotANumber)


\* the calls of callback f among the events evs
CallsOf(evs, f) == {k \in 1 .. Len(evs) : evs[k].ev = "call" /\ evs[k].fn = f}

\* C20: r.and_then(f).and_then(g) and r.and_then(v -> f(v).and_then(g)) are
\* the same Result, and both call f and g the same number of times, on the
\* same arguments, each at most once.
C20_AndThenAssociative ==
    \A i \in Steps :
        (i < Len(hist) /\ hist[i].op = "and_then" /\ hist[i + 1].op = "and_then") =>
            LET f == hist[i].fn
                g == hist[i + 1].fn
                lhs == Seg(hist[i]) \o Seg(hist[i + 1])
                rhs == and_then_nested(hist[i].recv, f, g)
            IN
            /\ hist[i + 1].out = rhs.res
            /\ lhs = rhs.ev
            /\ Cardinality(CallsOf(lhs, f) \cup CallsOf(lhs, g)) <= 2
            /\ (f # g => Cardinality(CallsOf(lhs, f)) <= 1 /\ Cardinality(CallsOf(lhs, g)) <= 1)

C20_Witness ==
    /\ Len(hist) = 3
    /\ hist[1].op = "Ok"
    /\ hist[1].arg = 1
    /\ hist[2].op = "and_then"
    /\ hist[2].fn = "ok_succ"
    /\ hist[3].op = "and_then"
    /\ hist[3].fn = "reject"
    /\ res.tag = "Err"
    /\ Len(log) = 2

\* what an operation did, as far as its caller can tell
Observed(o) == [ret |-> o.ret, returned |-> o.returned, ev |-> o.ev]

\* the non-fatal terminal of step h as src/result.hpp defines it, applied to
\* the receiver and the arguments of h
HppOutcome(h) ==
    CASE h.op = "unwrap_or" -> unwrap_or(h.recv, h.arg)
      [] h.op = "unwrap_or_else" /\ ~h.recv.isvoid -> unwrap_or_else(h.recv, h.fn)
      [] OTHER -> unwrap_or_else_void(h.recv, h.fn)

\* the same as the header of src/README.md defines it
ReadmeOutcome(h) ==
    CASE h.op = "unwrap_or" -> readme_unwrap_or(h.recv, h.arg)
      [] h.op = "unwrap_or_else" /\ ~h.recv.isvoid -> readme_unwrap_or_else(h.recv, h.fn)
      [] OTHER -> readme_unwrap_or_else_void(h.recv, h.fn)

\* step h as the run performed it
Performed(h) == [ret |-> h.ret, returned |-> h.returned, ev |-> Seg(h)]

\* step h under the printing revision and under the revision that does not
\* print: one is what the run did, the other the other revision's definition
PrintingRun(h) == IF rev = "result_hpp" THEN Performed(h) ELSE Observed(HppOutcome(h))
SilentRun(h) == IF rev = "readme" THEN Performed(h) ELSE Observed(ReadmeOutcome(h))

CallsIn(evs) == SelectSeq(evs, LAMBDA x : x.ev = "call")

\* unwrap_or on a Result with a payload, unwrap_or_else on any Result: the
\* operations both revisions define
InBothRevisions(h) ==
    \/ h.op = "unwrap_or" /\ ~h.recv.isvoid
    \/ h.op = "unwrap_or_else"

\* C21: the revision of unwrap_or and unwrap_or_else that prints and the one
\* that does not return the same value and call the recovery callback the
\* same number of times with the same argument; the printing one calls
\* Display<E>::print exactly once on Err, before anything else, and never on
\* Ok, and that is their only difference.
C21_RevisionsDifferOnlyInPrint ==
    \A i \in Steps :
        LET h == hist[i]
            p == PrintingRun(h)
            n == SilentRun(h)
        IN
        InBothRevisions(h) =>
            /\ p.returned
            /\ n.returned
            /\ p.ret = n.ret
            /\ CallsIn(p.ev) = CallsIn(n.ev)
            /\ Events(n.ev, "print") = {}
            /\ (h.recv.tag = "Err" =>
                    /\ p.ev = <<DisplayPrint(h.recv.error)>> \o n.ev
                    /\ Events(p.ev, "print") = {1})
            /\ (h.recv.tag = "Ok" => p.ev = n.ev /\ p.ev = <<>>)

C21_Witness ==
    /\ rev = "result_hpp"
    /\ Len(hist) = 3
    /\ hist[1].op = "Err"
    /\ hist[1].out.isvoid
    /\ hist[2].op = "map_err"
    /\ hist[3].op = "unwrap_or_else"
    /\ hist[3].fn = "twice"
    /\ Len(Seg(hist[3])) = 2

====
